---------------------------- MODULE Spec2Model ----------------------------
(***************************************************************************)
(* Model of the website mirroring tool:                                    *)
(*   src/download_site.py             WebsiteDownloader   (static mode)    *)
(*   src/download_site_playwright.py  PlaywrightDownloader (render mode)   *)
(*                                                                         *)
(* A Python str is modelled as a sequence of characters.  A run of         *)
(* letters and digits that no operation of the program looks into is       *)
(* written as one element ("example", "index"); every character that some  *)
(* operation inspects or produces is an element of its own:                *)
(*      /  \  :  ?  #  &  =  _  -  .                                       *)
(* so that two strings are equal in the model exactly when the Python      *)
(* strings are equal.                                                      *)
(***************************************************************************)
EXTENDS Integers, Sequences, FiniteSets, TLC

VARIABLES
    os_sep,        \* os.sep of the platform the program runs on: "/" or "\\"
    start_url,     \* self.start_url
    pd, pt,        \* path-mapper specification: document URL and target URL
    ppc,           \* path-mapper specification: which mapping has been applied
    plocal_d,      \* get_local_path(pd)
    plocal_t,      \* get_local_path(pt)
    prel,          \* get_relative_path(pd, pt)
    site,          \* the web site the run is pointed at (what the server serves)
    max_depth,     \* self.max_depth
    visited_urls,  \* self.visited_urls
    files,         \* the regular files on disk: path components -> content
    dirs,          \* the directories on disk: a set of path components
    stack,         \* the active calls of process_page, innermost last
    started,       \* run() has been called
    done,          \* run() has logged "Download completed."
    requests,      \* history: URL -> number of session.get calls of download_to_local
    page_fetches,  \* history: the session.get calls of process_page, in order
    invoked,       \* history: the (url, depth) pairs process_page was called with
    rpc,           \* PlaywrightDownloader.run: the statement it is at
    browser,       \* the browser instance: "none", "open" from launch() on,
                   \* "closed" once browser.close() has returned
    context,       \* the browser context: "none", "open" from new_context() on,
                   \* "closed" once context.close() has returned
    downloaded_resources,  \* self.downloaded_resources
    pending,       \* the URLs whose save_resource call is inside response.body()
    responses,     \* number of response events delivered to save_resource
    captures,      \* history: URL -> number of files save_resource wrote for it
    attempts,      \* one session.get: what each attempt of the request met, in order
    outcome,       \* one session.get: "idle", "pending", "response", "raised",
                   \* then what its caller made of it: "ok" or "failed"
    ev             \* history: the step just taken

pathVars == <<pd, pt, ppc, plocal_d, plocal_t, prel>>
diskVars == <<files, dirs>>
crawlVars == <<site, max_depth, visited_urls, stack, started, done,
               requests, page_fetches, invoked>>
renderVars == <<rpc, browser, context, downloaded_resources, pending, responses, captures>>
retryVars == <<attempts, outcome>>
vars == <<os_sep, start_url, pathVars, diskVars, crawlVars, renderVars, retryVars, ev>>

-----------------------------------------------------------------------------
(* str helpers                                                             *)

StartsWith(s, p) == Len(s) >= Len(p) /\ SubSeq(s, 1, Len(p)) = p

EndsWith(s, p) == Len(s) >= Len(p) /\ SubSeq(s, Len(s) - Len(p) + 1, Len(s)) = p

\* s.replace(old, new) for one-character old and new
Replace(s, old, new) == [i \in 1..Len(s) |-> IF s[i] = old THEN new ELSE s[i]]

\* index of the first character of s that is in C, 0 when there is none
FindFirst(s, C) ==
    IF \E i \in 1..Len(s) : s[i] \in C
    THEN CHOOSE i \in 1..Len(s) : s[i] \in C /\ \A j \in 1..(i - 1) : s[j] \notin C
    ELSE 0

\* index of the last character of s that is in C, 0 when there is none
FindLast(s, C) ==
    IF \E i \in 1..Len(s) : s[i] \in C
    THEN CHOOSE i \in 1..Len(s) : s[i] \in C /\ \A j \in (i + 1)..Len(s) : s[j] \notin C
    ELSE 0

Tail_(s, i) == SubSeq(s, i, Len(s))

\* s.split(c) for a set C of separator characters: the list of pieces
RECURSIVE Split(_, _)
Split(s, C) ==
    LET i == FindFirst(s, C)
    IN  IF i = 0 THEN <<s>>
        ELSE <<SubSeq(s, 1, i - 1)>> \o Split(Tail_(s, i + 1), C)

\* sep.join(parts)
RECURSIVE JoinWith(_, _)
JoinWith(parts, sep) ==
    IF Len(parts) = 0 THEN <<>>
    ELSE IF Len(parts) = 1 THEN parts[1]
    ELSE parts[1] \o <<sep>> \o JoinWith(Tail(parts), sep)

\* [x for x in parts if x]
RECURSIVE NonEmpty(_)
NonEmpty(parts) ==
    IF Len(parts) = 0 THEN <<>>
    ELSE IF parts[1] = <<>> THEN NonEmpty(Tail(parts))
    ELSE <<parts[1]>> \o NonEmpty(Tail(parts))

DOT == <<".">>
DOTDOT == <<".", ".">>


-----------------------------------------------------------------------------
(* urllib.parse                                                            *)

\* characters that may not occur in a URL scheme
NotSchemeChars == {"/", "\\", ":", "?", "#", "&", "=", "_"}

\* schemes urljoin resolves relative references for (urllib.parse.uses_relative)
uses_relative == {<<>>, <<"http">>, <<"https">>}

\* <<s[:i], s[i+1:]>> around the character at index i; <<s, "">> when i = 0
CutAt(s, i) == IF i = 0 THEN <<s, <<>>>> ELSE <<SubSeq(s, 1, i - 1), Tail_(s, i + 1)>>

\* s.split(c, 1), padded with "" when c does not occur
Cut(s, c) == CutAt(s, FindFirst(s, {c}))

\* index of the ":" ending the scheme of url, 0 when url has no scheme
SchemeEnd(url) ==
    LET i == FindFirst(url, {":"})
    IN  IF i > 1 /\ \A j \in 1..(i - 1) : url[j] \notin NotSchemeChars THEN i ELSE 0

\* urlsplit: <<scheme, rest>>, the scheme ending before the ":" at index i
SchemeAt(url, i) == IF i = 0 THEN <<<<>>, url>> ELSE CutAt(url, i)

SplitScheme(url) == SchemeAt(url, SchemeEnd(url))

\* _splitnetloc(url, 2): <<netloc, rest>>, the netloc ending before i
NetlocAt(r, i) == IF i = 0 THEN <<r, <<>>>> ELSE <<SubSeq(r, 1, i - 1), Tail_(r, i)>>

\* urlsplit: <<netloc, rest>> of what follows the scheme
SplitNetloc(rest) ==
    IF StartsWith(rest, <<"/", "/">>)
    THEN NetlocAt(Tail_(rest, 3), FindFirst(Tail_(rest, 3), {"/", "?", "#"}))
    ELSE <<<<>>, rest>>

UrlParts(scheme, netloc, path_query, fragment) ==
    [scheme |-> scheme, netloc |-> netloc, path |-> path_query[1],
     query |-> path_query[2], fragment |-> fragment]

\* urlsplit: the fragment is cut off first, then the query
UrlAfterNetloc(scheme, netloc, rest_fragment) ==
    UrlParts(scheme, netloc, Cut(rest_fragment[1], "?"), rest_fragment[2])

UrlAfterScheme(scheme, netloc_rest) ==
    UrlAfterNetloc(scheme, netloc_rest[1], Cut(netloc_rest[2], "#"))

UrlOfSplit(scheme_rest) == UrlAfterScheme(scheme_rest[1], SplitNetloc(scheme_rest[2]))

\* urlparse(url): scheme, netloc, path, query, fragment
urlparse(url) == UrlOfSplit(SplitScheme(url))

\* urlunparse(parts)
urlunparse(p) ==
    (IF p.scheme # <<>> THEN p.scheme \o <<":">> ELSE <<>>)
    \o (IF p.netloc # <<>> THEN <<"/", "/">> \o p.netloc ELSE <<>>)
    \o (IF p.netloc # <<>> /\ p.path # <<>> /\ p.path[1] # "/" THEN <<"/">> ELSE <<>>)
    \o p.path
    \o (IF p.query # <<>> THEN <<"?">> \o p.query ELSE <<>>)
    \o (IF p.fragment # <<>> THEN <<"#">> \o p.fragment ELSE <<>>)

\* the dot-segment removal loop of urljoin
RECURSIVE ResolveSegments(_, _)
ResolveSegments(segments, resolved) ==
    IF Len(segments) = 0 THEN resolved
    ELSE IF segments[1] = DOTDOT
    THEN ResolveSegments(Tail(segments),
             IF Len(resolved) = 0 THEN resolved
             ELSE SubSeq(resolved, 1, Len(resolved) - 1))
    ELSE IF segments[1] = DOT THEN ResolveSegments(Tail(segments), resolved)
    ELSE ResolveSegments(Tail(segments), Append(resolved, segments[1]))

\* segments[1:-1] = filter(None, segments[1:-1])
DropEmptyInner(segments) ==
    IF Len(segments) <= 2 THEN segments
    ELSE <<segments[1]>> \o NonEmpty(SubSeq(segments, 2, Len(segments) - 1))
         \o <<segments[Len(segments)]>>

\* urljoin: base_parts, the base path without its last segment
BaseParts(parts) ==
    IF parts[Len(parts)] # <<>> THEN SubSeq(parts, 1, Len(parts) - 1) ELSE parts

\* urljoin: the resolved path, joined, from the merged segments
JoinResolved(segments) ==
    JoinWith(IF segments[Len(segments)] \in {DOT, DOTDOT}
             THEN Append(ResolveSegments(segments, <<>>), <<>>)
             ELSE ResolveSegments(segments, <<>>), "/")

OrRoot(path) == IF path = <<>> THEN <<"/">> ELSE path

\* urljoin: the path of the result, for a reference with a path
MergePaths(bpath, path) ==
    OrRoot(JoinResolved(
        IF path[1] = "/" THEN Split(path, {"/"})
        ELSE DropEmptyInner(BaseParts(Split(bpath, {"/"})) \o Split(path, {"/"}))))

\* urljoin, once base and url are parsed and url has the base's scheme by default
JoinParsed(url, b, u) ==
    IF u.scheme # b.scheme \/ u.scheme \notin uses_relative THEN url
    ELSE IF u.netloc # <<>> THEN urlunparse(u)
    ELSE IF u.path = <<>>
    THEN urlunparse([u EXCEPT !.netloc = b.netloc, !.path = b.path,
                              !.query = IF u.query = <<>> THEN b.query ELSE u.query])
    ELSE urlunparse([u EXCEPT !.netloc = b.netloc, !.path = MergePaths(b.path, u.path)])

\* urlparse(url, bscheme)
WithScheme(u, bscheme) == IF u.scheme = <<>> THEN [u EXCEPT !.scheme = bscheme] ELSE u

JoinWithBase(url, b) == JoinParsed(url, b, WithScheme(urlparse(url), b.scheme))

\* urljoin(base, url)
urljoin(base, url) ==
    IF base = <<>> THEN url
    ELSE IF url = <<>> THEN base
    ELSE JoinWithBase(url, urlparse(base))

\* next_url.split('#')[0]
StripFragment(url) == Cut(url, "#")[1]

-----------------------------------------------------------------------------
(* os.path of the platform (posixpath when os_sep = "/", ntpath otherwise)  *)

\* the characters the platform takes as path separators (os.sep, os.altsep)
Seps == IF os_sep = "\\" THEN {"/", "\\"} ELSE {"/"}

\* os.path.join(a, *p), for paths without a drive
RECURSIVE PathJoin(_, _)
PathJoin(path, p) ==
    IF Len(p) = 0 THEN path
    ELSE IF p[1] # <<>> /\ p[1][1] \in Seps THEN PathJoin(p[1], Tail(p))
    ELSE IF path = <<>> \/ path[Len(path)] \in Seps
    THEN PathJoin(path \o p[1], Tail(p))
    ELSE PathJoin(path \o <<os_sep>> \o p[1], Tail(p))

\* s.rstrip(separators)
RECURSIVE RStripSeps(_)
RStripSeps(s) ==
    IF s # <<>> /\ s[Len(s)] \in Seps THEN RStripSeps(SubSeq(s, 1, Len(s) - 1)) ELSE s

\* os.path.dirname: the head, stripped of trailing separators unless it is only separators
StripHead(head, stripped) == IF stripped = <<>> THEN head ELSE stripped

HeadOf(head) == StripHead(head, RStripSeps(head))

\* os.path.dirname(p)
PathDirname(p) == HeadOf(SubSeq(p, 1, FindLast(p, Seps)))

\* os.path.splitext: the split at the last dot, when it follows the last separator
\* and is not one of the leading dots of the file name
SplitextAt(p, sepIndex, dotIndex) ==
    IF dotIndex > sepIndex /\ \E j \in (sepIndex + 1)..(dotIndex - 1) : p[j] # "."
    THEN <<SubSeq(p, 1, dotIndex - 1), Tail_(p, dotIndex)>>
    ELSE <<p, <<>>>>

\* os.path.splitext(p): <<root, ext>>
PathSplitext(p) == SplitextAt(p, FindLast(p, Seps), FindLast(p, {"."}))

\* the component loop of os.path.normpath, on a relative path
RECURSIVE NormComps(_, _)
NormComps(comps, out) ==
    IF Len(comps) = 0 THEN out
    ELSE IF comps[1] = <<>> \/ comps[1] = DOT THEN NormComps(Tail(comps), out)
    ELSE IF comps[1] = DOTDOT /\ Len(out) > 0 /\ out[Len(out)] # DOTDOT
    THEN NormComps(Tail(comps), SubSeq(out, 1, Len(out) - 1))
    ELSE NormComps(Tail(comps), Append(out, comps[1]))

\* the components of os.path.normpath(p), p relative: the file p denotes
PathComps(p) == NormComps(Split(p, Seps), <<>>)

\* len(os.path.commonprefix([a, b])) on component lists
RECURSIVE CommonLen(_, _)
CommonLen(a, b) ==
    IF Len(a) = 0 \/ Len(b) = 0 \/ a[1] # b[1] THEN 0
    ELSE 1 + CommonLen(Tail(a), Tail(b))

\* os.path.relpath: curdir when rel_list is empty, else its join
JoinRel(rel_list) == IF Len(rel_list) = 0 THEN DOT ELSE JoinWith(rel_list, os_sep)

\* os.path.relpath: rel_list = [pardir] * (len(start_list) - i) + path_list[i:]
RelList(start_list, path_list, i) ==
    [k \in 1..(Len(start_list) - i) |-> DOTDOT] \o SubSeq(path_list, i + 1, Len(path_list))

RelOfLists(start_list, path_list) ==
    JoinRel(RelList(start_list, path_list, CommonLen(start_list, path_list)))

\* os.path.relpath(path, start), both relative to the working directory
PathRelpath(path, start) == RelOfLists(PathComps(start), PathComps(path))

-----------------------------------------------------------------------------
(* Path mapping and relative paths of the two downloaders                  *)

\* output_dir, at its default "downloaded_site"
output_dir == <<"downloaded", "_", "site">>

INDEX_HTML == <<"index", ".", "html">>

\* get_local_path: if not path or path.endswith('/'): path += 'index.html'
IndexPath(path) ==
    IF path = <<>> \/ EndsWith(path, <<"/">>) THEN path \o INDEX_HTML ELSE path

\* get_local_path: if path.startswith('/'): path = path[1:]
StripSlash(path) == IF StartsWith(path, <<"/">>) THEN Tail(path) ELSE path

\* a mapping that picks another name once the disk holds files
LocalPathOfByDisk(parsed) ==
    PathJoin(output_dir, <<Replace(parsed.netloc, ":", "_"),
                           StripSlash(IndexPath(parsed.path))
                               \o (IF DOMAIN files = {} THEN <<>> ELSE <<"_", "1">>)>>)

\* WebsiteDownloader.get_local_path, once the URL is parsed
LocalPathOf(parsed) ==
    PathJoin(output_dir, <<Replace(parsed.netloc, ":", "_"), StripSlash(IndexPath(parsed.path))>>)

\* WebsiteDownloader.get_local_path(url)
get_local_path(url) == LocalPathOf(urlparse(url))

\* WebsiteDownloader.get_relative_path(base_url, target_url)
get_relative_path(base_url, target_url) ==
    Replace(PathRelpath(get_local_path(target_url), PathDirname(get_local_path(base_url))),
            "\\", "/")

\* a scoping test that admits every URL, whatever its host
is_valid_url_any(url) == TRUE

\* WebsiteDownloader.is_valid_url(url)
is_valid_url(url) == urlparse(url).netloc = urlparse(start_url).netloc

\* PlaywrightDownloader.base_domain, set by __init__
base_domain == urlparse(start_url).netloc

\* PlaywrightDownloader.get_local_path: the query folded into the file name
FoldQuery(path, base_ext, safe_query) ==
    IF base_ext[2] # <<>> THEN base_ext[1] \o <<"_">> \o safe_query \o base_ext[2]
    ELSE path \o <<"_">> \o safe_query

\* PlaywrightDownloader.get_local_path: the path, index.html added, slash removed
\* and the query, when there is one, folded in
PwPath(path, query) ==
    IF query = <<>> THEN path
    ELSE FoldQuery(path, PathSplitext(path),
                   Replace(Replace(Replace(query, "?", "_"), "&", "_"), "=", "-"))

\* PlaywrightDownloader.get_local_path: origin resources at the root, others
\* under _external/<domain>
PwBucket(domain, path) ==
    IF domain = Replace(base_domain, ":", "_")
    THEN PathJoin(output_dir, <<path>>)
    ELSE PathJoin(output_dir, <<<<"_", "external">>, domain, path>>)

PwLocalPathOf(parsed) ==
    PwBucket(Replace(parsed.netloc, ":", "_"),
             PwPath(StripSlash(IndexPath(parsed.path)), parsed.query))

\* PlaywrightDownloader.get_local_path(url)
pw_get_local_path(url) == PwLocalPathOf(urlparse(url))

\* get_relative_path(asset_url), local to PlaywrightDownloader.rewrite_html_links
pw_get_relative_path(page_url, asset_url) ==
    Replace(PathRelpath(pw_get_local_path(urljoin(page_url, asset_url)),
                        PathDirname(pw_get_local_path(page_url))),
            "\\", "/")

-----------------------------------------------------------------------------
(* URLs                                                                    *)

HTTP == <<"http", ":", "/", "/">>
HTTPS == <<"https", ":", "/", "/">>
ORIGIN == <<"example", ".", "com">>
CDN == <<"cdn", ".", "com">>

\* http://example.com<rest>
OnOrigin(rest) == HTTP \o ORIGIN \o rest

\* http://cdn.com<rest>
OnCdn(rest) == HTTP \o CDN \o rest

\* the URLs the path mapper is applied to
PathURLs ==
    { OnOrigin(<<>>),
      OnOrigin(<<"/", "a">>),
      OnOrigin(<<"/", "a", "/">>),
      OnOrigin(<<"/", "a", "/", "b", ".", "js">>),
      OnOrigin(<<"/", "a", "/", "b", ".", "js", "?", "v", "=", "1">>),
      OnOrigin(<<"/", "a", "/", "b", ".", "js", "?", "v", "=", "2">>),
      OnOrigin(<<"/", "a", "/", "b", "_", "v", "-", "1", ".", "js">>),
      HTTPS \o ORIGIN \o <<"/", "a">>,
      HTTP \o ORIGIN \o <<":", "8080", "/", "a">>,
      OnCdn(<<"/", "lib", ".", "js">>),
      OnOrigin(<<"/", "_", "external", "/", "cdn", ".", "com", "/", "lib", ".", "js">>),
      OnOrigin(<<"/", "img", "\\", "logo", ".", "png">>) }

-----------------------------------------------------------------------------
(* The disk                                                                *)

\* the directories a path runs through, itself included
Prefixes(comps) == {SubSeq(comps, 1, k) : k \in 1..Len(comps)}

\* os.path.exists(path)
path_exists(path) == PathComps(path) \in (DOMAIN files \cup dirs)

\* os.makedirs(path, exist_ok=True) raises: a component of path is a regular file
makedirs_raises(path) == \E c \in Prefixes(PathComps(path)) : c \in DOMAIN files

\* the directories after a successful os.makedirs(path, exist_ok=True)
makedirs(path) == dirs \cup Prefixes(PathComps(path))

\* open(path, 'w') raises: path is a directory
open_raises(path) == PathComps(path) \in dirs

\* a file holds its whole content
Complete(f) == f.got = f.of

-----------------------------------------------------------------------------
(* The network                                                             *)

\* number of chunks response.iter_content yields for a body
MaxChunks == 2

\* status codes of a response that is not a success
FailCodes == {404}

\* What one session.get of download_to_local meets: code 0 is a transport
\* error raised by session.get itself, code 200 with got < MaxChunks a
\* connection that breaks after got chunks of the body were delivered.
NetOutcomes ==
    {[code |-> 0, got |-> 0]}
    \cup {[code |-> c, got |-> 0] : c \in FailCodes}
    \cup {[code |-> 200, got |-> k] : k \in 0..MaxChunks}

\* no request was made
NoRequest == [code |-> -1, got |-> 0]

\* the timeout argument of session.get: none given (requests then waits without
\* limit), or a number of seconds
NoTimeout == [given |-> FALSE, seconds |-> 0]
Timeout(seconds) == [given |-> TRUE, seconds |-> seconds]

\* process_page: self.session.get(url)
page_timeout == NoTimeout

\* download_to_local: self.session.get(url, stream=True, timeout=10)
asset_timeout == Timeout(10)

-----------------------------------------------------------------------------
(* Markup and the sites served                                             *)

A(val) == [name |-> "a", attr |-> "href", val |-> val]
Link(val) == [name |-> "link", attr |-> "href", val |-> val]
Script(val) == [name |-> "script", attr |-> "src", val |-> val]
Img(val) == [name |-> "img", attr |-> "src", val |-> val]

LIB_JS == OnCdn(<<"/", "lib", ".", "js">>)

\* Each site: the start URL given to the downloader and, for every URL the
\* server answers with a document, the tags of that document in document order.
Sites ==
    [ diamond |->
        [ start |-> OnOrigin(<<"/">>),
          pages |->
            (OnOrigin(<<"/">>)      :> <<A(<<"/", "a">>), A(<<"/", "b">>)>>) @@
            (OnOrigin(<<"/", "a">>) :> <<A(<<"/", "b">>)>>) @@
            (OnOrigin(<<"/", "b">>) :> <<A(<<"/", "c">>)>>) @@
            (OnOrigin(<<"/", "c">>) :> <<A(<<"/">>)>>) ],
      mirror |->
        [ start |-> OnOrigin(<<"/", "a">>),
          pages |->
            (OnOrigin(<<"/", "a">>) :>
                <<Link(<<"style", ".", "css">>), Script(LIB_JS), A(<<"/", "docs", "/">>)>>) @@
            (OnOrigin(<<"/", "docs", "/">>) :>
                <<A(<<"/", "a">>), Script(LIB_JS), Link(<<"/", "style", ".", "css">>)>>) ],
      scoped |->
        [ start |-> OnOrigin(<<"/", "#", "top">>),
          pages |->
            (OnOrigin(<<"/">>) :>
                <<A(OnCdn(<<"/">>)), A(<<"#", "top">>), A(<<"/", "a", "#", "sec">>)>>) @@
            (OnOrigin(<<"/", "a">>) :>
                <<A(<<"/">>), A(<<"/", "a">>), A(LIB_JS)>>) ],
      variants |->
        [ start |-> OnOrigin(<<"/", "app", "/">>),
          pages |->
            (OnOrigin(<<"/", "app", "/">>) :>
                <<Script(<<"main", ".", "js", "?", "v", "=", "1">>),
                  Script(<<"main", "_", "v", "-", "1", ".", "js">>),
                  A(<<"/", "app", "/", "?", "tab", "=", "2">>)>>) ],
      conflict |->
        [ start |-> OnOrigin(<<"/">>),
          pages |->
            (OnOrigin(<<"/">>) :>
                <<Img(<<"/", "a">>), A(<<"/", "a", "/", "b">>), A(<<"/", "a">>)>>) @@
            (OnOrigin(<<"/", "a", "/", "b">>) :> <<A(<<"/", "a">>)>>) @@
            (OnOrigin(<<"/", "a">>) :> <<Img(<<"/", "a", "/", "b">>)>>) ] ]

\* the documents of the site the run is pointed at
Pages == Sites[site].pages

\* the indexes of the tags of markup with the given name, in document order
RECURSIVE SelectTags(_, _, _)
SelectTags(markup, name, i) ==
    IF i > Len(markup) THEN <<>>
    ELSE IF markup[i].name = name THEN <<i>> \o SelectTags(markup, name, i + 1)
    ELSE SelectTags(markup, name, i + 1)

\* soup.find_all(name, attr=True)
find_all(markup, name) == SelectTags(markup, name, 1)

-----------------------------------------------------------------------------
(* WebsiteDownloader (static mode)                                         *)

\* largest max_depth a run is given
MaxDepth == 2

DATA == <<"data", ":">>

NoFiles == [k \in {} |-> k]

\* a file written by download_to_local, after got of its chunks were written
AssetFile(url, got) ==
    [kind |-> "asset", url |-> url, got |-> got, of |-> MaxChunks, markup |-> <<>>]

\* a file written by process_page
PageFile(url, soup) ==
    [kind |-> "page", url |-> url, got |-> 1, of |-> 1, markup |-> soup]

Remove(f, key) == [k \in (DOMAIN f) \ {key} |-> f[k]]

\* download_to_local: the file after the body was streamed into it and, when the
\* stream raised, the clean-up ran (the file is removed only when it is empty)
AfterStream(written, key, net) ==
    IF net.got = MaxChunks
    THEN [ok |-> TRUE, files |-> written, dirs |-> dirs, requested |-> TRUE]
    ELSE [ok |-> FALSE,
          files |-> IF written[key].got = 0 THEN Remove(written, key) ELSE written,
          dirs |-> dirs, requested |-> TRUE]

\* download_to_local, from session.get on: the result and the files left on disk
fetch_to_file(url, key, net) ==
    IF net.code = 200
    THEN AfterStream((key :> AssetFile(url, net.got)) @@ files, key, net)
    ELSE [ok |-> FALSE, files |-> files, dirs |-> dirs, requested |-> TRUE]

\* download_to_local, once the URL is known to be an http(s) URL
DownloadAt(url, local_path, net, unchanged) ==
    IF path_exists(local_path) THEN [unchanged EXCEPT !.ok = TRUE]
    ELSE IF makedirs_raises(PathDirname(local_path)) THEN unchanged
    ELSE [fetch_to_file(url, PathComps(local_path), net) EXCEPT
             !.dirs = makedirs(PathDirname(local_path)), !.requested = TRUE]

\* WebsiteDownloader.download_to_local(url), the request meeting net:
\* the value returned, the disk afterwards, and whether a request was made
download_to_local(url, net) ==
    IF url = <<>> THEN [ok |-> FALSE, files |-> files, dirs |-> dirs, requested |-> FALSE]
    ELSE IF StartsWith(url, DATA) \/ ~(StartsWith(url, HTTP) \/ StartsWith(url, HTTPS))
    THEN [ok |-> FALSE, files |-> files, dirs |-> dirs, requested |-> FALSE]
    ELSE DownloadAt(url, get_local_path(url), net,
                    [ok |-> FALSE, files |-> files, dirs |-> dirs, requested |-> FALSE])

\* a process_asset_link that sets the relative local path whatever the download
\* returned
asset_attr_always_local(url, full_asset_url, ok) == get_relative_path(url, full_asset_url)

\* process_asset_link: the value the tag's attribute is set to
asset_attr(url, full_asset_url, ok) ==
    IF ok THEN get_relative_path(url, full_asset_url) ELSE full_asset_url

\* process_page: current_depth > self.max_depth
depth_exceeded(current_depth) == current_depth > max_depth

\* process_page: current_depth < self.max_depth
recurse_allowed(current_depth) == current_depth < max_depth

\* a recursive call that passes the caller's own depth on
child_depth_same(current_depth) == current_depth

\* process_page: the depth passed to the recursive call
child_depth(current_depth) == current_depth + 1

\* guards that let a URL in whether or not it is in visited_urls
EnteredUnvisited(url, current_depth) == ~depth_exceeded(current_depth)

\* process_page(url, current_depth) gets past its two guards
Entered(url, current_depth) == ~depth_exceeded(current_depth) /\ url \notin visited_urls

\* the call of process_page that has just got past its guards
NewFrame(url, current_depth) ==
    [url |-> url, depth |-> current_depth, pc |-> "fetch", soup |-> <<>>,
     todo |-> <<>>, links |-> <<>>, failed |-> {}]

\* the order in which process_page handles the asset tags: link, script, img
asset_order(soup) ==
    find_all(soup, "link") \o find_all(soup, "script") \o find_all(soup, "img")

Top == stack[Len(stack)]
Pop == SubSeq(stack, 1, Len(stack) - 1)
SetTop(f) == [stack EXCEPT ![Len(stack)] = f]

\* an except clause that lets the exception go on to the callers of process_page
AfterExceptRaise == <<>>

\* process_page: except Exception logs the failure and the call returns to its
\* caller
AfterExcept == Pop

CrawlIdle ==
    /\ site = "none"
    /\ max_depth = 0
    /\ visited_urls = {}
    /\ files = NoFiles
    /\ dirs = {}
    /\ stack = <<>>
    /\ started = FALSE
    /\ done = FALSE
    /\ requests = NoFiles
    /\ page_fetches = <<>>
    /\ invoked = {}
    /\ ev = [op |-> "init"]

RenderIdle ==
    /\ rpc = "idle"
    /\ browser = "none"
    /\ context = "none"
    /\ downloaded_resources = {}
    /\ pending = {}
    /\ responses = 0
    /\ captures = NoFiles

RetryIdle ==
    /\ attempts = <<>>
    /\ outcome = "idle"

PathIdle ==
    /\ pd = <<>>
    /\ pt = <<>>
    /\ ppc = "idle"
    /\ plocal_d = <<>>
    /\ plocal_t = <<>>
    /\ prel = <<>>

\* WebsiteDownloader(start_url, output_dir, max_depth) has been constructed
Init ==
    /\ os_sep \in {"/", "\\"}
    /\ site \in DOMAIN Sites
    /\ start_url = Sites[site].start
    /\ max_depth \in 0..MaxDepth
    /\ visited_urls = {}
    /\ files = NoFiles
    /\ dirs = Prefixes(PathComps(output_dir))
    /\ stack = <<>>
    /\ started = FALSE
    /\ done = FALSE
    /\ requests = NoFiles
    /\ page_fetches = <<>>
    /\ invoked = {}
    /\ ev = [op |-> "init"]
    /\ PathIdle
    /\ RenderIdle
    /\ RetryIdle

\* run() calls process_page(self.start_url, 0)
RunStart ==
    /\ ~started
    /\ started' = TRUE
    /\ invoked' = invoked \cup {<<start_url, 0>>}
    /\ IF Entered(start_url, 0)
       THEN /\ visited_urls' = visited_urls \cup {start_url}
            /\ stack' = <<NewFrame(start_url, 0)>>
       ELSE UNCHANGED <<visited_urls, stack>>
    /\ ev' = [op |-> "call", url |-> start_url, depth |-> 0]
    /\ UNCHANGED <<os_sep, start_url, retryVars, pathVars, renderVars, diskVars, site, max_depth, done,
                   requests, page_fetches>>

\* process_page: session.get(url), raise_for_status, BeautifulSoup(response.text)
FetchPage ==
    /\ stack # <<>>
    /\ Top.pc = "fetch"
    /\ \E ok \in BOOLEAN :
         /\ ok => StripFragment(Top.url) \in DOMAIN Pages
         /\ IF ok
            THEN \E soup \in {Pages[StripFragment(Top.url)]} :
                   stack' = SetTop([Top EXCEPT !.pc = "assets", !.soup = soup,
                                               !.todo = asset_order(soup)])
            ELSE stack' = AfterExcept
         /\ ev' = [op |-> "fetch", url |-> Top.url, depth |-> Top.depth, ok |-> ok]
         /\ page_fetches' = Append(page_fetches,
                                   [url |-> Top.url, depth |-> Top.depth, ok |-> ok,
                                    timeout |-> page_timeout])
    
    /\ UNCHANGED <<os_sep, start_url, retryVars, pathVars, renderVars, diskVars, site, max_depth, visited_urls,
                   started, done, requests, invoked>>

\* requests with one more request of url counted
Counted(url) ==
    (url :> IF url \in DOMAIN requests THEN requests[url] + 1 ELSE 1) @@ requests

\* process_page: process_asset_link(tag, attr) for the next link, script or img tag
ProcessAssetLink ==
    /\ stack # <<>>
    /\ Top.pc = "assets"
    /\ Top.todo # <<>>
    /\ \E i \in {Head(Top.todo)} :
         IF Top.soup[i].val = <<>>
         THEN /\ stack' = SetTop([Top EXCEPT !.todo = Tail(@)])
              /\ ev' = [op |-> "asset", page |-> Top.url, idx |-> i, url |-> <<>>,
                        net |-> NoRequest, timeout |-> asset_timeout, ok |-> FALSE]
              /\ UNCHANGED <<diskVars, requests>>
         ELSE \E full_asset_url \in {urljoin(Top.url, Top.soup[i].val)} :
              \E net \in NetOutcomes :
              \E r \in {download_to_local(full_asset_url, net)} :
                /\ files' = r.files
                /\ dirs' = r.dirs
                /\ requests' = IF r.requested THEN Counted(full_asset_url) ELSE requests
                /\ stack' = SetTop([Top EXCEPT
                      !.todo = Tail(@),
                      !.soup[i].val = asset_attr(Top.url, full_asset_url, r.ok),
                      !.failed = IF r.requested /\ net.code \in FailCodes
                                 THEN @ \cup {i} ELSE @])
                /\ ev' = [op |-> "asset", page |-> Top.url, idx |-> i,
                          url |-> full_asset_url,
                          net |-> IF r.requested THEN net ELSE NoRequest,
                          timeout |-> asset_timeout,
                          ok |-> r.ok]
    /\ UNCHANGED <<os_sep, start_url, retryVars, pathVars, renderVars, site, max_depth, visited_urls,
                   started, done, page_fetches, invoked>>

\* process_page: os.makedirs, open(local_path, 'w'), f.write(soup.prettify())
SavePage ==
    /\ stack # <<>>
    /\ Top.pc = "assets"
    /\ Top.todo = <<>>
    /\ \E local_path \in {get_local_path(Top.url)} :
         IF makedirs_raises(PathDirname(local_path))
         THEN /\ stack' = AfterExcept
              /\ ev' = [op |-> "save", url |-> Top.url, depth |-> Top.depth, ok |-> FALSE]
              /\ UNCHANGED diskVars
         ELSE IF open_raises(local_path)
         THEN /\ stack' = AfterExcept
              /\ dirs' = makedirs(PathDirname(local_path))
              /\ ev' = [op |-> "save", url |-> Top.url, depth |-> Top.depth, ok |-> FALSE]
              /\ UNCHANGED files
         ELSE /\ dirs' = makedirs(PathDirname(local_path))
              /\ files' = (PathComps(local_path) :> PageFile(Top.url, Top.soup)) @@ files
              /\ stack' = SetTop([Top EXCEPT
                    !.pc = "links",
                    !.links = IF recurse_allowed(Top.depth)
                              THEN find_all(Top.soup, "a") ELSE <<>>])
              /\ ev' = [op |-> "save", url |-> Top.url, depth |-> Top.depth, ok |-> TRUE]
    /\ UNCHANGED <<os_sep, start_url, retryVars, pathVars, renderVars, site, max_depth, visited_urls,
                   started, done, requests, page_fetches, invoked>>

\* process_page: the body of the loop over the a tags, for the next a tag
FollowLink ==
    /\ stack # <<>>
    /\ Top.pc = "links"
    /\ Top.links # <<>>
    /\ \E i \in {Head(Top.links)} :
       \E next_url \in {StripFragment(urljoin(Top.url, Top.soup[i].val))} :
       \E valid \in {is_valid_url(next_url)} :
       \E d \in {child_depth(Top.depth)} :
       \E href \in {IF valid THEN get_relative_path(Top.url, next_url) ELSE Top.soup[i].val} :
         /\ IF valid /\ Entered(next_url, d)
            THEN /\ visited_urls' = visited_urls \cup {next_url}
                 /\ stack' = Append(SetTop([Top EXCEPT !.links = Tail(@), !.soup[i].val = href]),
                                    NewFrame(next_url, d))
            ELSE /\ stack' = SetTop([Top EXCEPT !.links = Tail(@), !.soup[i].val = href])
                 /\ UNCHANGED visited_urls
         /\ invoked' = IF valid THEN invoked \cup {<<next_url, d>>} ELSE invoked
         /\ ev' = [op |-> "link", page |-> Top.url, depth |-> Top.depth, idx |-> i,
                   url |-> next_url, valid |-> valid,
                   before |-> Top.soup[i].val, after |-> href]
    /\ UNCHANGED <<os_sep, start_url, retryVars, pathVars, renderVars, diskVars, site, max_depth,
                   started, done, requests, page_fetches>>

\* process_page returns after its last a tag
ReturnPage ==
    /\ stack # <<>>
    /\ Top.pc = "links"
    /\ Top.links = <<>>
    /\ stack' = Pop
    /\ ev' = [op |-> "return", frame |-> Top]
    /\ UNCHANGED <<os_sep, start_url, retryVars, pathVars, renderVars, diskVars, site, max_depth, visited_urls,
                   started, done, requests, page_fetches, invoked>>

\* run() logs "Download completed."
RunFinish ==
    /\ started
    /\ stack = <<>>
    /\ ~done
    /\ done' = TRUE
    /\ ev' = [op |-> "finish"]
    /\ UNCHANGED <<os_sep, start_url, retryVars, pathVars, renderVars, diskVars, site, max_depth, visited_urls,
                   stack, started, requests, page_fetches, invoked>>

Next ==
    \/ RunStart
    \/ FetchPage
    \/ ProcessAssetLink
    \/ SavePage
    \/ FollowLink
    \/ ReturnPage
    \/ RunFinish

Spec == Init /\ [][Next]_vars

\* the states in which ProcessAssetLink, SavePage and FollowLink can be taken
ProcessAssetLinkEnabled == stack # <<>> /\ Top.pc = "assets" /\ Top.todo # <<>>
SavePageEnabled == stack # <<>> /\ Top.pc = "assets" /\ Top.todo = <<>>
FollowLinkEnabled == stack # <<>> /\ Top.pc = "links" /\ Top.links # <<>>

\* The interpreter goes on with the statement the run is at, and every network
\* and file operation returns or raises: weak fairness of each action, written
\* out as []<>~enabled \/ []<><<A>>_vars for the three actions above.
SpecLive ==
    /\ Spec
    /\ WF_vars(RunStart)
    /\ WF_vars(FetchPage)
    /\ WF_vars(ReturnPage)
    /\ WF_vars(RunFinish)
    /\ ([]<>~ProcessAssetLinkEnabled \/ []<><<ProcessAssetLink>>_vars)
    /\ ([]<>~SavePageEnabled \/ []<><<SavePage>>_vars)
    /\ ([]<>~FollowLinkEnabled \/ []<><<FollowLink>>_vars)

-----------------------------------------------------------------------------
(* Specification of the path mapper: the two URLs and the platform are     *)
(* inputs, and each action applies one downloader's mapping to them.       *)

InitPath ==
    /\ os_sep \in {"/", "\\"}
    /\ pd \in PathURLs
    /\ pt \in PathURLs
    /\ start_url = pd
    /\ ppc = "input"
    /\ plocal_d = <<>>
    /\ plocal_t = <<>>
    /\ prel = <<>>
    /\ CrawlIdle
    /\ RenderIdle
    /\ RetryIdle

\* WebsiteDownloader: get_local_path of both URLs and get_relative_path(pd, pt)
MapStatic ==
    /\ ppc = "input"
    /\ ppc' = "static"
    /\ plocal_d' = get_local_path(pd)
    /\ plocal_t' = get_local_path(pt)
    /\ prel' = get_relative_path(pd, pt)
    /\ UNCHANGED <<os_sep, start_url, retryVars, pd, pt, diskVars, crawlVars, renderVars, ev>>

\* PlaywrightDownloader started on pd: get_local_path of both URLs and the
\* relative path rewrite_html_links computes for a reference to pt
MapRender ==
    /\ ppc = "input"
    /\ ppc' = "render"
    /\ plocal_d' = pw_get_local_path(pd)
    /\ plocal_t' = pw_get_local_path(pt)
    /\ prel' = pw_get_relative_path(pd, pt)
    /\ UNCHANGED <<os_sep, start_url, retryVars, pd, pt, diskVars, crawlVars, renderVars, ev>>

NextPath == MapStatic \/ MapRender

SpecPath == InitPath /\ [][NextPath]_vars

-----------------------------------------------------------------------------
(* PlaywrightDownloader (render mode)                                      *)

\* number of response events the browser delivers during one navigation
MaxResponses == 3

\* status codes of the responses the browser delivers
Statuses == {200, 404}

\* a file written by save_resource: f.write(content) of the whole body
CapturedFile(url) ==
    [kind |-> "asset", url |-> url, got |-> 1, of |-> 1, markup |-> <<>>]

\* page.content(): the tags of the rendered document
rendered_html == Pages[StripFragment(start_url)]

\* the URLs the browser requests while it renders the start page: the document,
\* what its link, script and img tags refer to, and an inline data: resource
ResponseURLs ==
    {StripFragment(start_url), DATA \o <<"x">>}
    \cup { urljoin(start_url, rendered_html[i].val) :
             i \in { j \in DOMAIN rendered_html : rendered_html[j].name # "a" } }

\* save_resource: the checks that return before the URL is recorded
Skipped(url, status) ==
    \/ status # 200
    \/ ~(StartsWith(url, HTTP) \/ StartsWith(url, HTTPS))
    \/ StartsWith(url, DATA)
    \/ url \in downloaded_resources

JAVASCRIPT == <<"javascript", ":">>

\* rewrite_html_links: the tag is a link, script or img tag whose reference,
\* resolved against page_url, is in downloaded_resources
Rewritten(page_url, tag) ==
    /\ tag.name \in {"link", "script", "img"}
    /\ ~StartsWith(tag.val, DATA)
    /\ tag.name = "img" \/ ~StartsWith(tag.val, JAVASCRIPT)
    /\ urljoin(page_url, tag.val) \in downloaded_resources

\* rewrite_html_links(html, page_url): the tags of the markup it returns
rewrite_html_links(html, page_url) ==
    [i \in DOMAIN html |->
        IF Rewritten(page_url, html[i])
        THEN [html[i] EXCEPT !.val = pw_get_relative_path(page_url, html[i].val)]
        ELSE html[i]]

\* PlaywrightDownloader(start_url) has been constructed and run() called
InitRender ==
    /\ os_sep \in {"/", "\\"}
    /\ site \in DOMAIN Sites
    /\ start_url = Sites[site].start
    /\ max_depth = 0
    /\ visited_urls = {}
    /\ files = NoFiles
    /\ dirs = Prefixes(PathComps(output_dir))
    /\ stack = <<>>
    /\ started = FALSE
    /\ done = FALSE
    /\ requests = NoFiles
    /\ page_fetches = <<>>
    /\ invoked = {}
    /\ ev = [op |-> "init"]
    /\ PathIdle
    /\ RetryIdle
    /\ rpc = "new"
    /\ browser = "none"
    /\ context = "none"
    /\ downloaded_resources = {}
    /\ pending = {}
    /\ responses = 0
    /\ captures = NoFiles

\* run: browser = p.chromium.launch(headless=True)
Launch ==
    /\ rpc = "new"
    /\ \E ok \in BOOLEAN :
         /\ rpc' = IF ok THEN "launched" ELSE "raised"
         /\ browser' = IF ok THEN "open" ELSE browser
         /\ ev' = [op |-> "launch", ok |-> ok]
    /\ UNCHANGED <<os_sep, start_url, retryVars, pathVars, diskVars, crawlVars, context,
                   downloaded_resources, pending, responses, captures>>

\* run: context = browser.new_context(**context_options)
NewContext ==
    /\ rpc = "launched"
    /\ \E ok \in BOOLEAN :
         /\ rpc' = IF ok THEN "context" ELSE "raised"
         /\ context' = IF ok THEN "open" ELSE context
         /\ ev' = [op |-> "new_context", ok |-> ok]
    /\ UNCHANGED <<os_sep, start_url, retryVars, pathVars, diskVars, crawlVars, browser,
                   downloaded_resources, pending, responses, captures>>

\* run: context.add_cookies(cookie_list), page = context.new_page(),
\* page.on("response", self.save_resource)
NewPage ==
    /\ rpc = "context"
    /\ \E ok \in BOOLEAN :
         /\ rpc' = IF ok THEN "page" ELSE "raised"
         /\ ev' = [op |-> "new_page", ok |-> ok]
    /\ UNCHANGED <<os_sep, start_url, retryVars, pathVars, diskVars, crawlVars, browser, context,
                   downloaded_resources, pending, responses, captures>>

\* run: page.goto(self.start_url, wait_until="networkidle", timeout=60000) begins
Goto ==
    /\ rpc = "page"
    /\ rpc' = "goto"
    /\ ev' = [op |-> "goto"]
    /\ UNCHANGED <<os_sep, start_url, retryVars, pathVars, diskVars, crawlVars, browser, context,
                   downloaded_resources, pending, responses, captures>>

\* save_resource(response), from its first statement to response.body()
SaveResourceBegin ==
    /\ rpc = "goto"
    /\ responses < MaxResponses
    /\ responses' = responses + 1
    /\ \E url \in ResponseURLs :
       \E status \in Statuses :
       \E local_path \in {pw_get_local_path(url)} :
         IF Skipped(url, status)
         THEN /\ ev' = [op |-> "response", url |-> url, status |-> status, recorded |-> FALSE]
              /\ UNCHANGED <<diskVars, downloaded_resources, pending>>
         ELSE /\ downloaded_resources' = downloaded_resources \cup {url}
              /\ ev' = [op |-> "response", url |-> url, status |-> status, recorded |-> TRUE]
              /\ IF path_exists(local_path) \/ makedirs_raises(PathDirname(local_path))
                 THEN UNCHANGED <<diskVars, pending>>
                 ELSE /\ dirs' = makedirs(PathDirname(local_path))
                      /\ pending' = pending \cup {url}
                      /\ UNCHANGED files
    /\ UNCHANGED <<os_sep, start_url, retryVars, pathVars, crawlVars, rpc, browser, context,
                   captures>>

\* save_resource(response), from the return of response.body() on: the body is
\* written to local_path, or the exception of body() or open() is logged
SaveResourceEnd ==
    /\ rpc = "goto"
    /\ \E url \in pending :
       \E body_ok \in BOOLEAN :
       \E local_path \in {pw_get_local_path(url)} :
       \E written \in {body_ok /\ ~open_raises(local_path)} :
         /\ pending' = pending \ {url}
         /\ files' = IF written
                     THEN (PathComps(local_path) :> CapturedFile(url)) @@ files
                     ELSE files
         /\ captures' = IF written
                        THEN (url :> IF url \in DOMAIN captures THEN captures[url] + 1 ELSE 1)
                             @@ captures
                        ELSE captures
         /\ ev' = [op |-> "body", url |-> url, written |-> written,
                   existed |-> PathComps(local_path) \in DOMAIN files]
    /\ UNCHANGED <<os_sep, start_url, retryVars, pathVars, crawlVars, dirs, rpc, browser, context,
                   downloaded_resources, responses>>

\* run: page.goto raises (navigation error or timeout); the exception is logged
GotoRaises ==
    /\ rpc = "goto"
    /\ rpc' = "finally"
    /\ ev' = [op |-> "goto_raised"]
    /\ UNCHANGED <<os_sep, start_url, retryVars, pathVars, diskVars, crawlVars, browser, context,
                   downloaded_resources, pending, responses, captures>>

\* run: the network is idle and goto returns; page.content(), rewrite_html_links,
\* os.makedirs and the write of final_html to html_path
SaveHtml ==
    /\ rpc = "goto"
    /\ pending = {}
    /\ rpc' = "finally"
    /\ \E html_path \in {pw_get_local_path(start_url)} :
       \E final_html \in {rewrite_html_links(rendered_html, start_url)} :
         IF makedirs_raises(PathDirname(html_path))
         THEN /\ ev' = [op |-> "html", ok |-> FALSE, markup |-> final_html]
              /\ UNCHANGED diskVars
         ELSE IF open_raises(html_path)
         THEN /\ dirs' = makedirs(PathDirname(html_path))
              /\ ev' = [op |-> "html", ok |-> FALSE, markup |-> final_html]
              /\ UNCHANGED files
         ELSE /\ dirs' = makedirs(PathDirname(html_path))
              /\ files' = (PathComps(html_path) :> PageFile(start_url, final_html)) @@ files
              /\ ev' = [op |-> "html", ok |-> TRUE, markup |-> final_html]
    /\ UNCHANGED <<os_sep, start_url, retryVars, pathVars, crawlVars, browser, context,
                   downloaded_resources, pending, responses, captures>>

\* run, finally: context.close()
CloseContext ==
    /\ rpc = "finally"
    /\ \E ok \in BOOLEAN :
         /\ rpc' = IF ok THEN "context_closed" ELSE "raised"
         /\ context' = IF ok THEN "closed" ELSE context
         /\ ev' = [op |-> "context_close", ok |-> ok]
    /\ UNCHANGED <<os_sep, start_url, retryVars, pathVars, diskVars, crawlVars, browser,
                   downloaded_resources, pending, responses, captures>>

\* run, finally: browser.close()
CloseBrowser ==
    /\ rpc = "context_closed"
    /\ \E ok \in BOOLEAN :
         /\ rpc' = IF ok THEN "browser_closed" ELSE "raised"
         /\ browser' = IF ok THEN "closed" ELSE browser
         /\ ev' = [op |-> "browser_close", ok |-> ok]
    /\ UNCHANGED <<os_sep, start_url, retryVars, pathVars, diskVars, crawlVars, context,
                   downloaded_resources, pending, responses, captures>>

\* run: control leaves the with sync_playwright() block, by its end or by an
\* exception on its way to the caller of run(); only the end of the block is
\* followed by the log of "Download completed.".  Leaving the block calls
\* neither context.close() nor browser.close().
ExitPlaywright ==
    /\ rpc \in {"browser_closed", "raised"}
    /\ rpc' = IF rpc = "raised" THEN "aborted" ELSE "completed"
    /\ ev' = [op |-> "exit", raised |-> rpc = "raised"]
    /\ UNCHANGED <<os_sep, start_url, retryVars, pathVars, diskVars, crawlVars, browser, context,
                   downloaded_resources, pending, responses, captures>>

NextRender ==
    \/ Launch
    \/ NewContext
    \/ NewPage
    \/ Goto
    \/ SaveResourceBegin
    \/ SaveResourceEnd
    \/ GotoRaises
    \/ SaveHtml
    \/ CloseContext
    \/ CloseBrowser
    \/ ExitPlaywright

SpecRender == InitRender /\ [][NextRender]_vars

-----------------------------------------------------------------------------
(* The retry layer under session.get: the HTTPAdapter mounted by __init__   *)
(* with Retry(total=3, status_forcelist=[429, 500, 502, 503, 504],          *)
(* allowed_methods=["HEAD", "GET", "OPTIONS"]) and urllib3's defaults       *)

\* Retry(total=3)
total == 3

\* Retry(status_forcelist=[429, 500, 502, 503, 504])
status_forcelist == {429, 500, 502, 503, 504}

\* urllib3's Retry.RETRY_AFTER_STATUS_CODES, in force because
\* respect_retry_after_header is left at its default True
RETRY_AFTER_STATUS_CODES == {413, 429, 503}

\* a response with the given status, with or without a Retry-After header
Status(code, retry_after) == [kind |-> "status", code |-> code, retry_after |-> retry_after]

\* an exception of the transport: a timeout, a connection reset, or a host name
\* that does not resolve
TransportError(what) == [kind |-> "error", code |-> 0, retry_after |-> FALSE, what |-> what]

\* what one attempt of a GET can meet
Signals ==
    {Status(c, FALSE) : c \in {200, 404, 413, 429, 500, 501, 503}}
    \cup {Status(413, TRUE)}
    \cup {TransportError(w) : w \in {"timeout", "reset", "dns"}}

\* urllib3: Retry.is_retry(method, status_code, has_retry_after) for a GET, and
\* the retry of every exception of the transport by urlopen
is_retry(sig) ==
    \/ sig.kind = "error"
    \/ sig.code \in status_forcelist
    \/ sig.retry_after /\ sig.code \in RETRY_AFTER_STATUS_CODES

\* urllib3: Retry.is_exhausted() after an increment for each of the failed attempts
is_exhausted(failed) == total - failed < 0

\* process_page or download_to_local calls session.get(url)
InitRetry ==
    /\ os_sep \in {"/", "\\"}
    /\ PathIdle
    /\ start_url = <<>>
    /\ CrawlIdle
    /\ RenderIdle
    /\ attempts = <<>>
    /\ outcome = "pending"

\* one attempt of the request: it meets sig; the adapter tries again, hands the
\* response to session.get, or raises (the transport's exception or RetryError)
Attempt ==
    /\ outcome = "pending"
    /\ \E sig \in Signals :
         /\ attempts' = Append(attempts, sig)
         /\ outcome' = IF ~is_retry(sig) THEN "response"
                       ELSE IF is_exhausted(Len(attempts) + 1) THEN "raised"
                       ELSE "pending"
         /\ ev' = [op |-> "attempt", sig |-> sig]
    /\ UNCHANGED <<os_sep, start_url, pathVars, diskVars, crawlVars, renderVars>>

\* the caller of session.get: a status other than 200 and an exception are both
\* a failure of this one page or asset, handled by the caller's except clause or
\* status test; nothing is raised further
Handle ==
    /\ outcome \in {"response", "raised"}
    /\ outcome' = IF outcome = "response" /\ attempts[Len(attempts)].code = 200
                  THEN "ok" ELSE "failed"
    /\ ev' = [op |-> "handle", raised |-> outcome = "raised"]
    /\ UNCHANGED <<os_sep, start_url, pathVars, diskVars, crawlVars, renderVars, attempts>>

NextRetry == Attempt \/ Handle

SpecRetry == InitRetry /\ [][NextRetry]_vars

-----------------------------------------------------------------------------
(* The link graph of a site, as the claims speak of it                     *)

\* the same-domain pages the document served at u links to
LinkTargets(u) ==
    IF StripFragment(u) \notin DOMAIN Pages THEN {}
    ELSE { t \in { StripFragment(urljoin(u, Pages[StripFragment(u)][i].val)) :
                     i \in { j \in DOMAIN Pages[StripFragment(u)] :
                               Pages[StripFragment(u)][j].name = "a" } } :
             urlparse(t).netloc = urlparse(start_url).netloc }

\* the pages at most k hyperlinks away from the start URL
RECURSIVE Within(_)
Within(k) ==
    IF k = 0 THEN {start_url}
    ELSE Within(k - 1) \cup UNION { LinkTargets(u) : u \in Within(k - 1) }

\* the URLs process_page has requested as pages
FetchedPages == { page_fetches[i].url : i \in DOMAIN page_fetches }

\* the characters of a string
Chars(str) == { str[i] : i \in DOMAIN str }

-----------------------------------------------------------------------------
(* Claims                                                                  *)

\* C1 (Dedup): in one static-mode run download_to_local issues at most one
\* network request for any URL, whether the first attempt succeeded or failed.
DedupAtMostOneRequest == \A u \in DOMAIN requests : requests[u] <= 1

\* C2 (Depth bound): process_page fetches a URL as a page only at a depth
\* k <= max_depth, and only a URL that some chain of at most k hyperlinks
\* reaches from the start URL; with max_depth = 0 only the start page is fetched.
DepthBound ==
    \A i \in DOMAIN page_fetches :
        /\ page_fetches[i].depth <= max_depth
        /\ page_fetches[i].url \in Within(page_fetches[i].depth)
        /\ max_depth = 0 => page_fetches[i].url = start_url

\* C2 witness: a run with a positive max_depth has finished, it fetched a page at
\* depth max_depth, and the site has a page further away that it left unfetched.
DepthBoundWitness ==
    /\ done
    /\ max_depth > 0
    /\ \E i \in DOMAIN page_fetches : page_fetches[i].depth = max_depth
    /\ \E u \in Within(max_depth + 1) : u \notin Within(max_depth) /\ u \notin FetchedPages

\* C3 (No partial files): every file present under the output root holds the
\* complete body of its resource.
NoPartialFiles == \A k \in DOMAIN files : Complete(files[k])

\* C4: when process_page returns from a page at depth < max_depth whose file it
\* wrote, the markup in that file has, for every same-domain hyperlink, an href
\* equal to the relative local path of the target page.
PersistedHrefsRewritten ==
    (ev.op = "return" /\ ev.frame.depth < max_depth) =>
        \E key \in {PathComps(get_local_path(ev.frame.url))} :
            (key \in DOMAIN files /\ files[key].kind = "page" /\ files[key].url = ev.frame.url) =>
                \A i \in DOMAIN files[key].markup :
                    \E next_url \in {StripFragment(urljoin(ev.frame.url,
                                        Pages[StripFragment(ev.frame.url)][i].val))} :
                        (files[key].markup[i].name = "a"
                         /\ urlparse(next_url).netloc = urlparse(start_url).netloc)
                        => files[key].markup[i].val = get_relative_path(ev.frame.url, next_url)

\* C5 (Asset failure fallback): when the fetch of an asset returns a non-200
\* status, no file is at the asset's local path, the tag's attribute is the
\* resolved absolute URL, also in the markup persisted afterwards, and
\* process_page goes on with the page.
AssetFailureFallback ==
    /\ (ev.op = "asset" /\ ev.net.code \in FailCodes) =>
          /\ PathComps(get_local_path(ev.url)) \notin DOMAIN files
          /\ stack # <<>>
          /\ Top.url = ev.page
          /\ Top.pc = "assets"
          /\ Top.soup[ev.idx].val = urljoin(ev.page, Pages[StripFragment(ev.page)][ev.idx].val)
    /\ (ev.op = "save" /\ ev.ok) =>
          \A i \in Top.failed :
              files[PathComps(get_local_path(ev.url))].markup[i].val
                  = urljoin(ev.url, Pages[StripFragment(ev.url)][i].val)

\* C5 witness: a page was persisted after the fetch of one of its assets had
\* returned a non-200 status.
AssetFailureWitness == ev.op = "save" /\ ev.ok /\ Top.failed # {}

\* C6 (Domain scoping): process_page is never called on, and never fetches, a URL
\* whose host differs from the start URL's, and the href of a hyperlink to another
\* domain is the one the document was served with, in memory and on disk.
DomainScoping ==
    /\ \A c \in invoked : urlparse(c[1]).netloc = urlparse(start_url).netloc
    /\ \A u \in FetchedPages : urlparse(u).netloc = urlparse(start_url).netloc
    /\ (ev.op = "link" /\ urlparse(ev.url).netloc # urlparse(start_url).netloc) =>
          /\ ev.after = ev.before
          /\ Top.soup[ev.idx].val = Pages[StripFragment(ev.page)][ev.idx].val
    /\ \A k \in DOMAIN files :
          files[k].kind = "page" =>
              \A i \in DOMAIN files[k].markup :
                  (files[k].markup[i].name = "a"
                   /\ urlparse(StripFragment(urljoin(files[k].url, Pages[StripFragment(files[k].url)][i].val))).netloc
                        # urlparse(start_url).netloc)
                  => files[k].markup[i].val = Pages[StripFragment(files[k].url)][i].val

\* C6 witness: process_page has met a hyperlink to another domain on a page it
\* recurses from.
DomainScopingWitness == ev.op = "link" /\ ~ev.valid /\ ev.depth < max_depth

\* C7 (In-budget closure): when every page fetch succeeded, at the end of the run
\* every same-domain page at most max_depth hyperlinks away from the start URL
\* has been fetched (the claim adds: and persisted).
InBudgetClosure ==
    (done /\ \A i \in DOMAIN page_fetches : page_fetches[i].ok) =>
        \A u \in Within(max_depth) : u \in FetchedPages

\* C8 (Path-mapping collision freedom): under both bucketing schemes
\* get_local_path maps two distinct URLs to distinct local paths.
PathMappingInjective ==
    (ppc \in {"static", "render"} /\ pd # pt) => plocal_d # plocal_t

\* C10 (Relative-path round trip): the value of get_relative_path(d, t), resolved
\* against the directory containing get_local_path(d), denotes get_local_path(t)
\* and has no backslash in it.
RelativePathRoundTrip ==
    ppc \in {"static", "render"} =>
        /\ PathComps(PathJoin(PathDirname(plocal_d), <<prel>>)) = PathComps(plocal_t)
        /\ "\\" \notin Chars(prel)

\* C9 (Rewrite only when localized): when the rendered page is persisted, every
\* link, script or img reference that rewrite_html_links replaced by a relative
\* local path has a file at the local path of its resource.
RewriteOnlyLocalized ==
    (ev.op = "html" /\ ev.ok) =>
        \A i \in DOMAIN rendered_html :
            ev.markup[i] # rendered_html[i] =>
                PathComps(pw_get_local_path(urljoin(start_url, rendered_html[i].val)))
                    \in DOMAIN files

\* the step just taken is a failure of a page in process_page: its fetch or the
\* write of its file raised
PageFailed == ev.op \in {"fetch", "save"} /\ ~ev.ok

\* C11 (Page-failure containment): when the fetch or the write of a page fails in
\* process_page, control is back in the caller, which is at its loop over the
\* hyperlinks (or, for the start page, in run), and every run reaches the
\* completion step of run().
PageFailureContained ==
    /\ [](PageFailed =>
            IF ev.depth = 0 THEN stack = <<>> /\ ~done
            ELSE /\ stack # <<>>
                 /\ Top.depth = ev.depth - 1
                 /\ Top.pc = "links"
                 /\ Len(stack) = ev.depth)
    /\ <>done

\* C11 witness: the run has completed although a page below the start page
\* failed, and the parent fetched another page after that failure.
PageFailureWitness ==
    /\ done
    /\ \E i, j \in DOMAIN page_fetches :
          /\ i < j
          /\ ~page_fetches[i].ok
          /\ page_fetches[i].depth > 0
          /\ page_fetches[j].depth = page_fetches[i].depth

\* C12 (Render-mode teardown): when PlaywrightDownloader.run is left after the
\* browser was launched, whether it completed or an exception left it, the
\* browser has been closed and so has the context, if one was created.
TeardownOnExit ==
    (rpc \in {"completed", "aborted"} /\ browser # "none") =>
        browser = "closed" /\ context # "open"

VisitedAtMostOnce ==
    /\ \A i, j \in DOMAIN page_fetches :
          StripFragment(page_fetches[i].url) = StripFragment(page_fetches[j].url) => i = j
    /\ \A u \in visited_urls : "#" \notin Chars(u)

PagePersisted ==
    ev.op = "save" =>
        /\ ev.ok
        /\ PathComps(get_local_path(ev.url)) \in DOMAIN files
        /\ files[PathComps(get_local_path(ev.url))].kind = "page"
        /\ files[PathComps(get_local_path(ev.url))].url = ev.url

\* a transient signal: HTTP 429, a 5xx status, or a timeout or reset of the
\* transport
Transient(sig) ==
    IF sig.kind = "status" THEN sig.code = 429 \/ sig.code \in 500..599
    ELSE sig.what \in {"timeout", "reset"}

\* C17 (Retry policy): a fetch is attempted again only after a transient signal
\* and is attempted at most total + 1 = 4 times; a 4xx status other than 429 is
\* never followed by another attempt; and a fetch whose retries are exhausted is
\* a failed outcome for its caller.
RetryPolicy ==
    /\ \A i \in 1..(Len(attempts) - 1) : Transient(attempts[i])
    /\ Len(attempts) <= total + 1
    /\ \A i \in 1..(Len(attempts) - 1) :
          ~(attempts[i].kind = "status" /\ attempts[i].code \in 400..499
            /\ attempts[i].code # 429)
    /\ (ev.op = "handle" /\ ev.raised) => outcome = "failed"

\* C18: every request the static downloader issues, the page fetch of
\* process_page and the asset fetch of download_to_local alike, is issued with a
\* timeout.
EveryRequestHasTimeout ==
    /\ \A i \in DOMAIN page_fetches : page_fetches[i].timeout.given
    /\ (ev.op = "asset" /\ ev.net # NoRequest) => ev.timeout.given

\* C19 (Render-mode capture at most once): whatever the order of the response
\* events and of the returns of response.body(), save_resource writes at most one
\* file for a URL, records only URLs of status-200 http(s) responses, and never
\* writes over a file that is already at the local path.
CaptureAtMostOnce ==
    /\ \A u \in DOMAIN captures : captures[u] <= 1
    /\ \A u \in downloaded_resources : StartsWith(u, HTTP) \/ StartsWith(u, HTTPS)
    /\ (ev.op = "response" /\ ev.recorded) => ev.status = 200
    /\ (ev.op = "body" /\ ev.written) => ~ev.existed

\* C20 (Boundary pages): when process_page returns from a page at depth
\* max_depth, every same-domain hyperlink of its markup has the relative local
\* path of its target as href, and process_page was never called for a depth
\* beyond max_depth.
BoundaryPagesRewritten ==
    /\ (ev.op = "return" /\ ev.frame.depth = max_depth) =>
          \A i \in DOMAIN ev.frame.soup :
              \E next_url \in {StripFragment(urljoin(ev.frame.url,
                                  Pages[StripFragment(ev.frame.url)][i].val))} :
                  (ev.frame.soup[i].name = "a" /\ is_valid_url(next_url))
                  => ev.frame.soup[i].val = get_relative_path(ev.frame.url, next_url)
    /\ \A c \in invoked : c[2] <= max_depth

=============================================================================
